---- MODULE Spec2Model ----
(***************************************************************************)
(* cslog: asynchronous logger (csLog::Logger, csLog::LogLine).             *)
(*                                                                         *)
(* Producer threads build a line in LogLine::~LogLine and hand it to       *)
(* Logger::push; one worker thread (Logger::workerThread) pops the queue,  *)
(* writes console and file, rotates and cleans up files, and flushes.      *)
(* Logger::stop sets exitFlag, joins the worker and closes the file.       *)
(*                                                                         *)
(* Units: one unit of size stands for 16 KiB of text; one unit of time is  *)
(* one second (the resolution of the file-name timestamp and the length of *)
(* FLUSH_INTERVAL_MS).  The wall clock is taken to be non-decreasing.      *)
(***************************************************************************)
EXTENDS Integers, Sequences, FiniteSets, TLC

\* ---------------------------------------------------------------- bounds
MaxEmit == 2
MaxClock == 1
MaxDiskBytes == 5
MaxStops == 2
MaxOpenFail == 1
MaxMsgLen == 3

\* ------------------------------------------------------- program constants
LOG_LEVEL_ERROR == 0
LOG_LEVEL_WARN == 1
LOG_LEVEL_INFO == 2
LOG_LEVEL_DEBUG == 3
FLUSH_BYTES_THRESHOLD == 2
FLUSH_INTERVAL_MS == 1

Producers == {1, 2}
\* How many lines each producer emits: the first MaxEmit, the others one less.
EmitQuota(p) == IF p = 1 THEN MaxEmit ELSE MaxEmit - 1
Worker == 0

\* Sample lines a producer can emit: severity and rendered length.
Messages ==
    { [lvl |-> LOG_LEVEL_ERROR, len |-> 1],
      [lvl |-> LOG_LEVEL_INFO,  len |-> 1] }

\* struct LogConfig, set once by loadConfigFromFile: every combination of the
\* sampled values.
AllConfigs ==
    [ enable           : BOOLEAN,
      toConsole        : {TRUE},
      toFile           : BOOLEAN,
      level            : {LOG_LEVEL_WARN, LOG_LEVEL_INFO},
      maxFileSize      : {1, 3},
      maxLogsTotalSize : {0, 1, 3},
      maxQueueSize     : {2},
      queuePolicy      : {"block", "drop", "warn", "other"} ]

\* The configurations explored: each setting is varied around a central one
\* (enabled, drop policy, maxFileSize 1, maxLogsTotalSize 3) instead of all at
\* once.
LogConfig ==
    { c \in AllConfigs :
        IF ~c.enable
        THEN /\ c.toFile /\ c.level = LOG_LEVEL_INFO /\ c.queuePolicy = "drop"
             /\ c.maxFileSize = 1 /\ c.maxLogsTotalSize = 3
        ELSE IF c.toFile
        THEN \/ c.queuePolicy = "drop"
             \/ c.maxFileSize = 1 /\ c.maxLogsTotalSize = 3
        ELSE c.maxFileSize = 1 /\ c.maxLogsTotalSize = 3 }

\* The configurations in which file.open is allowed to fail.
FailConfigs ==
    { c \in LogConfig : /\ c.enable /\ c.toFile /\ c.level = LOG_LEVEL_INFO
                        /\ c.queuePolicy = "drop"
                        /\ c.maxFileSize = 1 /\ c.maxLogsTotalSize = 3 }

NoFile == [exists |-> FALSE]
NoTask == [lvl |-> LOG_LEVEL_DEBUG, len |-> 0, src |-> Worker, seq |-> 0]
FileNames == 0..MaxClock

VARIABLES
    cfg,             \* g_cfg
    queue,           \* Logger::queue
    exitFlag,        \* Logger::exitFlag
    pcP,             \* per producer: "idle", or "wait" inside cv.wait of push
    pend,            \* per producer: the task a waiting push holds
    emitted,         \* per producer: number of LogLine objects destroyed so far
    pcW,             \* worker position in workerThread
    task,            \* workerThread local: task
    hasTask,         \* workerThread local: hasTask
    fileOpen,        \* file.is_open()
    currentFileName, \* Logger::currentFileName (its timestamp)
    currentSize,     \* Logger::currentSize
    bytesSinceFlush, \* Logger::bytesSinceFlush
    lastFlush,       \* workerThread local: lastFlush
    disk,            \* files {base}_*.log of the log directory, by timestamp
    clock,           \* current time in seconds
    failsLeft,       \* file.open failures the environment may still produce
    console,         \* last task written to std::cout
    warnings,        \* lines written to std::cerr by push
    dropped,         \* tasks push returned on without enqueuing
    joinable,        \* worker.joinable()
    pcS,             \* position of the thread calling stop
    stopCalls,       \* completed stop() calls
    backlog,         \* tasks queued at the first stop request, not yet popped
    hadBacklog,      \* the queue was non-empty at the first stop request
    lateEmit,        \* push was called after the worker left its loop
    event,           \* what the worker's last step did (cleanup, idle flush)
    openFailed,      \* file.open has failed at least once
    escMsg,          \* the text streamed into a LogLine, as byte codes
    escOut,          \* the msg field ~LogLine rendered for escMsg
    escDone          \* ~LogLine has rendered escMsg

escVars == << escMsg, escOut, escDone >>

vars == << cfg, queue, exitFlag, pcP, pend, emitted, pcW, task, hasTask,
           fileOpen, currentFileName, currentSize, bytesSinceFlush, lastFlush,
           disk, clock, failsLeft, console, warnings, dropped, joinable, pcS,
           stopCalls, backlog, hadBacklog, lateEmit, event, openFailed,
           escVars >>

loggerVars == << cfg, queue, exitFlag, pcP, pend, emitted, pcW, task, hasTask,
                 fileOpen, currentFileName, currentSize, bytesSinceFlush,
                 lastFlush, disk, clock, failsLeft, console, warnings, dropped,
                 joinable, pcS, stopCalls, backlog, hadBacklog, lateEmit, event,
                 openFailed >>

prodVars == << pcP, pend, emitted >>
fileVars == << fileOpen, currentFileName, currentSize, bytesSinceFlush, disk >>
stopVars == << joinable, pcS, stopCalls >>

\* ---------------------------------------------------------------- helpers
RECURSIVE SumLen(_)
SumLen(s) == IF s = <<>> THEN 0 ELSE Head(s).len + SumLen(Tail(s))

\* Logical size of a file: everything appended, flushed or still buffered.
FileSize(f) == IF f.exists THEN SumLen(f.content) ELSE 0

\* fs::directory_entry::file_size(): what is on disk.
DiskSize(f) == IF f.exists THEN f.synced ELSE 0

RECURSIVE SumOver(_, _)
SumOver(d, S) ==
    IF S = {} THEN 0
    ELSE LET n == CHOOSE x \in S : TRUE
         IN DiskSize(d[n]) + SumOver(d, S \ {n})

Existing(d) == {n \in DOMAIN d : d[n].exists}
TotalSize(d) == SumOver(d, Existing(d))

RECURSIVE SumLogical(_, _)
SumLogical(d, S) ==
    IF S = {} THEN 0
    ELSE LET n == CHOOSE x \in S : TRUE
         IN FileSize(d[n]) + SumLogical(d, S \ {n})

\* The filter with the level comparison turned round.
AdmitsReversed(lvl) == cfg.enable /\ lvl >= cfg.level

\* ~LogLine / push filter: if (!config().enable || level > config().level) return;
Admits(lvl) == cfg.enable /\ lvl <= cfg.level

\* ------------------------------------------------------------- rendering
\* Message bytes sampled: quote, backslash, newline, carriage return, the
\* control bytes 0x01 and 0x1f, and the letter a.
Alphabet == {34, 92, 10, 13, 1, 31, 97}

\* The message texts of at most MaxMsgLen bytes.
Texts == UNION { [1..k -> Alphabet] : k \in 0..MaxMsgLen }

\* One lower-case hexadecimal digit, as snprintf's %x prints it.
HexDigit(v) == IF v < 10 THEN 48 + v ELSE 87 + v

\* snprintf(buf, sizeof(buf), "\\u%04x", c & 0xff) without the leading \u.
Hex4(c) ==
    LET v == c % 256
    IN << HexDigit((v \div 4096) % 16), HexDigit((v \div 256) % 16),
          HexDigit((v \div 16) % 16), HexDigit(v % 16) >>

\* The switch of jsonEscape with backslash passed through unescaped.
EscapeCharNoBackslash(c) ==
    IF c = 34 THEN << 92, 34 >>
    ELSE IF c = 8 THEN << 92, 98 >>
    ELSE IF c = 12 THEN << 92, 102 >>
    ELSE IF c = 10 THEN << 92, 110 >>
    ELSE IF c = 13 THEN << 92, 114 >>
    ELSE IF c = 9 THEN << 92, 116 >>
    ELSE IF c < 32 THEN << 92, 117 >> \o Hex4(c)
    ELSE << c >>

\* The switch of jsonEscape, lines 162-178: what one byte becomes.
EscapeChar(c) ==
    IF c = 34 THEN << 92, 34 >>
    ELSE IF c = 92 THEN << 92, 92 >>
    ELSE IF c = 8 THEN << 92, 98 >>
    ELSE IF c = 12 THEN << 92, 102 >>
    ELSE IF c = 10 THEN << 92, 110 >>
    ELSE IF c = 13 THEN << 92, 114 >>
    ELSE IF c = 9 THEN << 92, 116 >>
    ELSE IF c < 32 THEN << 92, 117 >> \o Hex4(c)
    ELSE << c >>

\* jsonEscape, lines 157-181.
RECURSIVE jsonEscape(_)
jsonEscape(s) ==
    IF s = <<>> THEN <<>> ELSE EscapeChar(Head(s)) \o jsonEscape(Tail(s))

\* ~LogLine, lines 484-486: trailing \n and \r are popped off the message.
RECURSIVE StripTrailing(_)
StripTrailing(s) ==
    IF s # <<>> /\ s[Len(s)] \in {10, 13}
    THEN StripTrailing(SubSeq(s, 1, Len(s) - 1))
    ELSE s

\* ~LogLine, line 512: the msg field between its quotes.
RenderMsg(s) == jsonEscape(StripTrailing(s))

\* ------------------------------------------------------------------- push
SelfTask == [lvl |-> LOG_LEVEL_INFO, len |-> 2, src |-> Worker, seq |-> 0]

\* Push with the task put at the front of the queue.
PushFront(q, t) ==
    IF Len(q) >= cfg.maxQueueSize /\ cfg.queuePolicy \in {"block", "drop", "warn"}
    THEN [queue |-> q,
          out |-> IF cfg.queuePolicy = "drop" THEN "dropped"
                  ELSE IF cfg.queuePolicy = "warn" THEN "warned" ELSE "wait"]
    ELSE [queue |-> <<t>> \o q, out |-> "enqueued"]

\* Push that lets the queue reach one task more than maxQueueSize.
PushOffByOne(q, t) ==
    IF Len(q) > cfg.maxQueueSize /\ cfg.queuePolicy \in {"block", "drop", "warn"}
    THEN [queue |-> q,
          out |-> IF cfg.queuePolicy = "drop" THEN "dropped"
                  ELSE IF cfg.queuePolicy = "warn" THEN "warned" ELSE "wait"]
    ELSE [queue |-> Append(q, t), out |-> "enqueued"]

\* Push whose drop policy enqueues on a full queue.
PushDropEnqueues(q, t) ==
    IF Len(q) >= cfg.maxQueueSize /\ cfg.queuePolicy \in {"block", "warn"}
    THEN [queue |-> q,
          out |-> IF cfg.queuePolicy = "warn" THEN "warned" ELSE "wait"]
    ELSE [queue |-> Append(q, t), out |-> "enqueued"]

\* Push whose warn policy drops without writing the warning.
PushWarnSilent(q, t) ==
    IF Len(q) >= cfg.maxQueueSize /\ cfg.queuePolicy \in {"block", "drop", "warn"}
    THEN [queue |-> q,
          out |-> IF cfg.queuePolicy = "block" THEN "wait" ELSE "dropped"]
    ELSE [queue |-> Append(q, t), out |-> "enqueued"]

\* push that drops on a full queue under every policy it does not know.
PushUnknownDrops(q, t) ==
    IF Len(q) >= cfg.maxQueueSize
    THEN IF cfg.queuePolicy = "warn" THEN [queue |-> q, out |-> "warned"]
         ELSE IF cfg.queuePolicy = "block" THEN [queue |-> q, out |-> "wait"]
         ELSE [queue |-> q, out |-> "dropped"]
    ELSE [queue |-> Append(q, t), out |-> "enqueued"]

\* Logger::push under the mutex, for queue q and task t: the queue afterwards
\* and what became of the task.  "wait" is the cv.wait of the block policy.
Push(q, t) ==
    IF Len(q) >= cfg.maxQueueSize
    THEN IF cfg.queuePolicy = "drop" THEN [queue |-> q, out |-> "dropped"]
         ELSE IF cfg.queuePolicy = "warn" THEN [queue |-> q, out |-> "warned"]
         ELSE IF cfg.queuePolicy = "block" THEN [queue |-> q, out |-> "wait"]
         ELSE [queue |-> Append(q, t), out |-> "enqueued"]
    ELSE [queue |-> Append(q, t), out |-> "enqueued"]

\* The std::cerr line and the lost task of one push outcome.
CountPush(out) ==
    /\ warnings' = warnings + (IF out = "warned" THEN 1 ELSE 0)
    /\ dropped' = dropped + (IF out \in {"dropped", "warned"} THEN 1 ELSE 0)

\* A producer destroys a LogLine holding message m: filter, render, push.
EmitMsg(p, m) ==
    /\ pcW # "terminated"
    /\ pcP[p] = "idle"
    /\ emitted[p] < EmitQuota(p)
    /\ LET t == [lvl |-> m.lvl, len |-> m.len, src |-> p, seq |-> emitted[p] + 1]
           r == Push(queue, t)
       IN IF ~Admits(m.lvl)
          THEN /\ UNCHANGED << queue, pcP, pend, warnings, dropped >>
          ELSE /\ queue' = r.queue
               /\ CountPush(r.out)
               /\ pcP' = [pcP EXCEPT ![p] = IF r.out = "wait" THEN "wait" ELSE "idle"]
               /\ pend' = [pend EXCEPT ![p] = IF r.out = "wait" THEN t ELSE NoTask]
    /\ emitted' = [emitted EXCEPT ![p] = @ + 1]
    /\ lateEmit' = (lateEmit \/ (Admits(m.lvl) /\ pcW \in {"final", "done"}))
    /\ UNCHANGED << cfg, exitFlag, pcW, task, hasTask, fileVars, lastFlush, clock,
                    failsLeft, console, stopVars, backlog, hadBacklog,
                    event, escVars, openFailed >>

Emit(p) == \E m \in Messages : EmitMsg(p, m)

\* cv.wait(lock, [&]{ return queue.size() < maxQueueSize; }) returns; the task
\* is enqueued under the same lock.
PushWake(p) ==
    /\ pcW # "terminated"
    /\ pcP[p] = "wait"
    /\ Len(queue) < cfg.maxQueueSize
    /\ queue' = Append(queue, pend[p])
    /\ pcP' = [pcP EXCEPT ![p] = "idle"]
    /\ pend' = [pend EXCEPT ![p] = NoTask]
    /\ UNCHANGED << cfg, exitFlag, emitted, pcW, task, hasTask, fileVars, lastFlush,
                    clock, failsLeft, console, warnings, dropped, stopVars, backlog, hadBacklog, lateEmit, event, escVars, openFailed >>

\* ------------------------------------------------------------------ files
\* file.flush() / the flush of file.close(): buffered bytes reach the disk.
Flush(d, n) ==
    IF d[n].exists /\ d[n].synced # FileSize(d[n])
    THEN [d EXCEPT ![n].synced = FileSize(d[n]), ![n].mtime = clock]
    ELSE d

\* The sort with the comparison turned round: newest first.
SortedOrdersNewestFirst(d) ==
    LET S == Existing(d)
        k == Cardinality(S)
    IN { o \in [1..k -> S] :
           /\ \A i, j \in 1..k : i # j => o[i] # o[j]
           /\ \A i, j \in 1..k : i < j => d[o[i]].mtime >= d[o[j]].mtime }

\* std::sort by last_write_time: every order of the files with non-decreasing
\* modification time (the order of equal times is unspecified).
SortedOrders(d) ==
    LET S == Existing(d)
        k == Cardinality(S)
    IN { o \in [1..k -> S] :
           /\ \A i, j \in 1..k : i # j => o[i] # o[j]
           /\ \A i, j \in 1..k : i < j => d[o[i]].mtime <= d[o[j]].mtime }

\* The deletion loop with the files left in place.
DeleteLoopNoRemove(d, o, i, totalSize) == d

\* The deletion loop of cleanupOldLogFiles over the sorted files.
RECURSIVE DeleteLoop(_, _, _, _)
DeleteLoop(d, o, i, totalSize) ==
    IF i > Len(o) \/ totalSize <= cfg.maxLogsTotalSize
    THEN d
    ELSE LET sz == DiskSize(d[o[i]])
         IN DeleteLoop([d EXCEPT ![o[i]] = NoFile], o, i + 1,
                       IF totalSize >= sz THEN totalSize - sz ELSE 0)

\* cleanupOldLogFiles that deletes nothing.
CleanupOldLogFilesKeepsAll(d) == {d}

\* Logger::cleanupOldLogFiles: the directories it can leave behind.
CleanupOldLogFiles(d) ==
    IF cfg.maxLogsTotalSize = 0 THEN {d}
    ELSE IF Existing(d) = {} THEN {d}
    ELSE IF TotalSize(d) <= cfg.maxLogsTotalSize THEN {d}
    ELSE { DeleteLoop(d, o, 1, TotalSize(d)) : o \in SortedOrders(d) }

\* createNewLogFile that takes a failed file.open for an open file.
CreateNewLogFileOpensOnFailure(d, ok) ==
    LET n == clock
        r == IF Admits(LOG_LEVEL_INFO) THEN Push(queue, SelfTask)
             ELSE [queue |-> queue, out |-> "filtered"]
        made == IF d[n].exists THEN d
                ELSE [d EXCEPT ![n] = [exists |-> TRUE, content |-> <<>>,
                                       synced |-> 0, mtime |-> clock]]
    IN IF r.out = "wait"
       THEN [blocked |-> TRUE, queue |-> queue, out |-> r.out, disk |-> d,
             open |-> FALSE, name |-> n, size |-> currentSize,
             bsf |-> bytesSinceFlush]
       ELSE IF ~ok
       THEN [blocked |-> FALSE, queue |-> r.queue, out |-> r.out, disk |-> d,
             open |-> TRUE, name |-> n, size |-> 0, bsf |-> bytesSinceFlush]
       ELSE [blocked |-> FALSE, queue |-> r.queue, out |-> r.out, disk |-> made,
             open |-> TRUE, name |-> n, size |-> DiskSize(made[n]), bsf |-> 0]

\* createNewLogFile that starts the counter at 0 whatever the file holds.
CreateNewLogFileCountsFromZero(d, ok) ==
    LET n == clock
        r == IF Admits(LOG_LEVEL_INFO) THEN Push(queue, SelfTask)
             ELSE [queue |-> queue, out |-> "filtered"]
        made == IF d[n].exists THEN d
                ELSE [d EXCEPT ![n] = [exists |-> TRUE, content |-> <<>>,
                                       synced |-> 0, mtime |-> clock]]
    IN IF r.out = "wait"
       THEN [blocked |-> TRUE, queue |-> queue, out |-> r.out, disk |-> d,
             open |-> FALSE, name |-> n, size |-> currentSize,
             bsf |-> bytesSinceFlush]
       ELSE IF ~ok
       THEN [blocked |-> FALSE, queue |-> r.queue, out |-> r.out, disk |-> d,
             open |-> FALSE, name |-> n, size |-> 0, bsf |-> bytesSinceFlush]
       ELSE [blocked |-> FALSE, queue |-> r.queue, out |-> r.out, disk |-> made,
             open |-> TRUE, name |-> n, size |-> 0, bsf |-> 0]

\* createNewLogFile opening with truncation instead of std::ios::app.
CreateNewLogFileTruncates(d, ok) ==
    LET n == clock
        r == IF Admits(LOG_LEVEL_INFO) THEN Push(queue, SelfTask)
             ELSE [queue |-> queue, out |-> "filtered"]
        made == [d EXCEPT ![n] = [exists |-> TRUE, content |-> <<>>,
                                  synced |-> 0, mtime |-> clock]]
    IN IF r.out = "wait"
       THEN [blocked |-> TRUE, queue |-> queue, out |-> r.out, disk |-> d,
             open |-> FALSE, name |-> n, size |-> currentSize,
             bsf |-> bytesSinceFlush]
       ELSE IF ~ok
       THEN [blocked |-> FALSE, queue |-> r.queue, out |-> r.out, disk |-> d,
             open |-> FALSE, name |-> n, size |-> 0, bsf |-> bytesSinceFlush]
       ELSE [blocked |-> FALSE, queue |-> r.queue, out |-> r.out, disk |-> made,
             open |-> TRUE, name |-> n, size |-> DiskSize(made[n]), bsf |-> 0]

\* Logger::createNewLogFile on directory d, with ok telling whether file.open
\* succeeds.  The LOG_INFO line goes through ~LogLine and push on this thread.
CreateNewLogFile(d, ok) ==
    LET n == clock
        r == IF Admits(LOG_LEVEL_INFO) THEN Push(queue, SelfTask)
             ELSE [queue |-> queue, out |-> "filtered"]
        made == IF d[n].exists THEN d
                ELSE [d EXCEPT ![n] = [exists |-> TRUE, content |-> <<>>,
                                       synced |-> 0, mtime |-> clock]]
    IN IF r.out = "wait"
       THEN [blocked |-> TRUE, queue |-> queue, out |-> r.out, disk |-> d,
             open |-> FALSE, name |-> n, size |-> currentSize,
             bsf |-> bytesSinceFlush]
       ELSE IF ~ok
       THEN [blocked |-> FALSE, queue |-> r.queue, out |-> r.out, disk |-> d,
             open |-> FALSE, name |-> n, size |-> 0, bsf |-> bytesSinceFlush]
       ELSE [blocked |-> FALSE, queue |-> r.queue, out |-> r.out, disk |-> made,
             open |-> TRUE, name |-> n, size |-> DiskSize(made[n]), bsf |-> 0]

\* Whether the filesystem calls of openFileOnce and cleanupOldLogFiles
\* (create_directories, directory_iterator, file_size, remove) succeed now.  They
\* are the throwing overloads and nothing on the worker thread catches.
FsChoices == IF failsLeft > 0 THEN BOOLEAN ELSE {TRUE}

\* The worker's last step did nothing worth recording.
NoEvent == [kind |-> "none", files |-> 0, deleted |-> 0, distinct |-> TRUE]

\* A cleanupOldLogFiles pass that found directory d and left d2.
CleanupEvent(d, d2) ==
    [kind |-> "cleanup",
     files |-> Cardinality(Existing(d)),
     deleted |-> Cardinality(Existing(d) \ Existing(d2)),
     distinct |-> \A a, b \in Existing(d) : a # b => d[a].mtime # d[b].mtime]

\* An iteration without a task whose flush policy put bytes on disk.
IdleFlushEvent == [kind |-> "idleFlush", files |-> 0, deleted |-> 0, distinct |-> TRUE]

\* Whether file.open may fail now.
OpenChoices == IF failsLeft > 0 THEN BOOLEAN ELSE {TRUE}

\* ----------------------------------------------------------------- worker
\* The exit test without the queue test.
ExitTestNoDrain == exitFlag

\* The exit test of workerThread, line 400.
ExitTest == exitFlag /\ queue = <<>>

\* workerThread, lines 393-417: wait_for, exit test, pop, console.
WorkerPop ==
    /\ pcW = "pop"
    /\ event' = NoEvent
    /\ IF ExitTest
       THEN /\ pcW' = "final"
            /\ UNCHANGED << queue, task, hasTask, console, backlog >>
       ELSE IF queue # <<>>
       THEN /\ task' = Head(queue)
            /\ queue' = Tail(queue)
            /\ hasTask' = TRUE
            /\ console' = IF cfg.toConsole THEN Head(queue) ELSE console
            /\ backlog' = IF backlog > 0 THEN backlog - 1 ELSE 0
            /\ pcW' = IF cfg.toFile THEN "write" ELSE "flush"
       ELSE /\ hasTask' = FALSE
            /\ pcW' = "flush"
            /\ UNCHANGED << queue, task, console, backlog >>
    /\ UNCHANGED << cfg, exitFlag, prodVars, fileVars, lastFlush, clock, failsLeft,
                    warnings, dropped, stopVars, hadBacklog, lateEmit, escVars, openFailed >>

\* file.write and the two counters, lines 422-424, on directory d for the
\* session (name n, currentSize sz, bytesSinceFlush b).
Write(d, n, sz, b) ==
    [disk |-> [d EXCEPT ![n].content = Append(@, task)],
     size |-> sz + task.len,
     bsf  |-> b + task.len]

\* No room is left for the task on the modelled disk.
DiskFull(d) == SumLogical(d, Existing(d)) + task.len > MaxDiskBytes

\* workerThread, lines 420-424 with the file open: openFileOnce returns at once,
\* the task is written.  With no file open: openFileOnce creates the directory
\* and runs cleanupOldLogFiles (lines 334-336).
WorkerWrite ==
    /\ pcW = "write"
    /\ IF fileOpen
       THEN LET w == Write(disk, currentFileName, currentSize, bytesSinceFlush)
            IN /\ ~DiskFull(disk)
               /\ disk' = w.disk
               /\ currentSize' = w.size
               /\ bytesSinceFlush' = w.bsf
               /\ pcW' = "rotate"
               /\ event' = NoEvent
               /\ UNCHANGED failsLeft
       ELSE \E ok \in FsChoices :
              IF ok
              THEN /\ disk' \in CleanupOldLogFiles(disk)
                   /\ pcW' = "create"
                   /\ event' = CleanupEvent(disk, disk')
                   /\ UNCHANGED << currentSize, bytesSinceFlush, failsLeft >>
              ELSE /\ pcW' = "terminated"
                   /\ failsLeft' = failsLeft - 1
                   /\ event' = NoEvent
                   /\ UNCHANGED << disk, currentSize, bytesSinceFlush >>
    /\ UNCHANGED << cfg, queue, exitFlag, prodVars, task, hasTask, fileOpen,
                    currentFileName, lastFlush, clock, console, warnings,
                    dropped, stopVars, backlog, hadBacklog, lateEmit, escVars, openFailed >>

\* openFileOnce, line 338: createNewLogFile; then lines 421-424, the write when
\* the file is open.
WorkerCreate ==
    /\ pcW = "create"
    /\ \E ok \in OpenChoices :
         LET r == CreateNewLogFile(disk, ok)
             w == Write(r.disk, r.name, r.size, r.bsf)
         IN /\ r.open => ~DiskFull(r.disk)
            /\ event' = NoEvent
            /\ openFailed' = (openFailed \/ (~r.blocked /\ ~r.open))
            /\ queue' = r.queue
            /\ CountPush(r.out)
            /\ fileOpen' = r.open
            /\ currentFileName' = r.name
            /\ failsLeft' = IF ~r.blocked /\ ~ok THEN failsLeft - 1 ELSE failsLeft
            /\ disk' = IF r.open THEN w.disk ELSE r.disk
            /\ currentSize' = IF r.open THEN w.size ELSE r.size
            /\ bytesSinceFlush' = IF r.open THEN w.bsf ELSE r.bsf
            /\ pcW' = IF r.blocked THEN "blocked"
                      ELSE IF r.open THEN "rotate" ELSE "flush"
    /\ UNCHANGED << cfg, exitFlag, prodVars, task, hasTask, lastFlush, clock,
                    console, stopVars, backlog, hadBacklog, lateEmit, escVars >>

\* The flush policy without the time limit.
FlushPolicyBytesOnly(d, open, n, b, l) ==
    IF cfg.toFile /\ open /\ b >= FLUSH_BYTES_THRESHOLD
    THEN [disk |-> Flush(d, n), bsf |-> 0, last |-> clock]
    ELSE [disk |-> d, bsf |-> b, last |-> l]

\* The flush policy with > in place of >= on the byte threshold.
FlushPolicyStrict(d, open, n, b, l) ==
    LET needFlush == \/ b > FLUSH_BYTES_THRESHOLD
                     \/ clock - l >= FLUSH_INTERVAL_MS
    IN IF cfg.toFile /\ open /\ needFlush
       THEN [disk |-> Flush(d, n), bsf |-> 0, last |-> clock]
       ELSE [disk |-> d, bsf |-> b, last |-> l]

\* The flush policy of workerThread, lines 436-453, on the file state
\* (directory d, open flag, file n, bytesSinceFlush b, lastFlush l).
FlushPolicy(d, open, n, b, l) ==
    LET needFlush == \/ b >= FLUSH_BYTES_THRESHOLD
                     \/ clock - l >= FLUSH_INTERVAL_MS
    IN IF cfg.toFile /\ open /\ needFlush
       THEN [disk |-> Flush(d, n), bsf |-> 0, last |-> clock]
       ELSE [disk |-> d, bsf |-> b, last |-> l]

\* The end of the iteration without the flush of an ERROR task.
AfterWriteNoErrorFlush(d, open, n, b) == FlushPolicy(d, open, n, b, lastFlush)

\* workerThread, lines 427-458 after a write: the flush of an ERROR task, the
\* flush policy and notify_all, on the file state the write or rotate left.
AfterWrite(d, open, n, b) ==
    LET err == task.lvl <= LOG_LEVEL_ERROR
    IN FlushPolicy(IF err /\ open THEN Flush(d, n) ELSE d, open, n,
                   IF err THEN 0 ELSE b,
                   IF err THEN clock ELSE lastFlush)

\* rotate without the flush and close of the full file.
RotateCloseMissing == [disk |-> disk, open |-> fileOpen]

\* rotate, lines 346-349: flush and close the full file.
RotateClose == [disk |-> Flush(disk, currentFileName), open |-> FALSE]

\* workerThread, line 425: Logger::rotate.  Below maxFileSize it returns and the
\* iteration ends (lines 427-458); otherwise it flushes and closes the file and
\* runs cleanupOldLogFiles (lines 346-351).
WorkerRotate ==
    /\ pcW = "rotate"
    /\ IF currentSize < cfg.maxFileSize
       THEN LET f == AfterWrite(disk, TRUE, currentFileName, bytesSinceFlush)
            IN /\ disk' = f.disk
               /\ bytesSinceFlush' = f.bsf
               /\ lastFlush' = f.last
               /\ pcW' = "pop"
               /\ event' = NoEvent
               /\ UNCHANGED << fileOpen, failsLeft >>
       ELSE \E ok \in FsChoices :
              /\ fileOpen' = RotateClose.open
              /\ IF ok
                 THEN /\ disk' \in CleanupOldLogFiles(RotateClose.disk)
                      /\ pcW' = "recreate"
                      /\ event' = CleanupEvent(RotateClose.disk, disk')
                      /\ UNCHANGED failsLeft
                 ELSE /\ disk' = RotateClose.disk
                      /\ pcW' = "terminated"
                      /\ failsLeft' = failsLeft - 1
                      /\ event' = NoEvent
              /\ UNCHANGED << bytesSinceFlush, lastFlush >>
    /\ UNCHANGED << cfg, queue, exitFlag, prodVars, task, hasTask, currentFileName,
                    currentSize, clock, console, warnings, dropped,
                    stopVars, backlog, hadBacklog, lateEmit, escVars, openFailed >>

\* rotate, line 353: createNewLogFile; then the rest of the iteration, lines
\* 427-458.
WorkerRecreate ==
    /\ pcW = "recreate"
    /\ \E ok \in OpenChoices :
         LET r == CreateNewLogFile(disk, ok)
             f == AfterWrite(r.disk, r.open, r.name, r.bsf)
         IN /\ event' = NoEvent
            /\ openFailed' = (openFailed \/ (~r.blocked /\ ~r.open))
            /\ queue' = r.queue
            /\ CountPush(r.out)
            /\ fileOpen' = r.open
            /\ currentFileName' = r.name
            /\ currentSize' = r.size
            /\ failsLeft' = IF ~r.blocked /\ ~ok THEN failsLeft - 1 ELSE failsLeft
            /\ disk' = IF r.blocked THEN r.disk ELSE f.disk
            /\ bytesSinceFlush' = IF r.blocked THEN r.bsf ELSE f.bsf
            /\ lastFlush' = IF r.blocked THEN lastFlush ELSE f.last
            /\ pcW' = IF r.blocked THEN "blocked" ELSE "pop"
    /\ UNCHANGED << cfg, exitFlag, prodVars, task, hasTask, clock, console,
                    stopVars, backlog, hadBacklog, lateEmit, escVars >>

\* workerThread, lines 436-458, when nothing was written: the flush policy and
\* notify_all.
WorkerFlush ==
    /\ pcW = "flush"
    /\ LET f == FlushPolicy(disk, fileOpen, currentFileName, bytesSinceFlush, lastFlush)
       IN /\ disk' = f.disk
          /\ bytesSinceFlush' = f.bsf
          /\ lastFlush' = f.last
          /\ event' = IF ~hasTask /\ f.disk # disk THEN IdleFlushEvent ELSE NoEvent
    /\ pcW' = "pop"
    /\ UNCHANGED << cfg, queue, exitFlag, prodVars, task, hasTask, fileOpen,
                    currentFileName, currentSize, clock, failsLeft, console,
                    warnings, dropped, stopVars, backlog, hadBacklog, lateEmit, escVars, openFailed >>

\* workerThread, lines 461-464: the final flush; the thread ends.
WorkerFinal ==
    /\ pcW = "final"
    /\ event' = NoEvent
    /\ disk' = IF cfg.toFile /\ fileOpen THEN Flush(disk, currentFileName) ELSE disk
    /\ pcW' = "done"
    /\ UNCHANGED << cfg, queue, exitFlag, prodVars, task, hasTask, fileOpen,
                    currentFileName, currentSize, bytesSinceFlush, lastFlush, clock,
                    failsLeft, console, warnings, dropped, stopVars, backlog, hadBacklog, lateEmit, escVars, openFailed >>

\* ------------------------------------------------------------------- stop
\* Logger::stop, lines 468-472: exitFlag under the mutex, notify_all.
StopRequest ==
    /\ pcW # "terminated"
    /\ pcS = "idle"
    /\ stopCalls < MaxStops
    /\ exitFlag' = TRUE
    /\ backlog' = IF ~exitFlag THEN Len(queue) ELSE backlog
    /\ hadBacklog' = IF ~exitFlag THEN queue # <<>> ELSE hadBacklog
    /\ pcS' = "join"
    /\ UNCHANGED << cfg, queue, prodVars, pcW, task, hasTask, fileVars, lastFlush,
                    clock, failsLeft, console, warnings, dropped, joinable,
                    stopCalls, lateEmit, event, escVars, openFailed >>

\* stop without the close.
StopCloseMissing == [disk |-> disk, open |-> fileOpen]

\* file.close() of line 474: the directory and the open flag it leaves.
StopClose ==
    [disk |-> IF fileOpen THEN Flush(disk, currentFileName) ELSE disk,
     open |-> FALSE]

\* Logger::stop, lines 473-474: join the worker if joinable, close the file.
StopJoin ==
    /\ pcW # "terminated"
    /\ pcS = "join"
    /\ joinable => pcW = "done"
    /\ joinable' = FALSE
    /\ disk' = StopClose.disk
    /\ fileOpen' = StopClose.open
    /\ pcS' = "idle"
    /\ stopCalls' = stopCalls + 1
    /\ UNCHANGED << cfg, queue, exitFlag, prodVars, pcW, task, hasTask,
                    currentFileName, currentSize, bytesSinceFlush, lastFlush, clock,
                    failsLeft, console, warnings, dropped, backlog, hadBacklog, lateEmit, event, escVars, openFailed >>

\* ------------------------------------------------------------------ clock
Tick ==
    /\ pcW # "terminated"
    /\ clock < MaxClock
    /\ clock' = clock + 1
    /\ UNCHANGED << cfg, queue, exitFlag, prodVars, pcW, task, hasTask, fileVars,
                    lastFlush, failsLeft, console, warnings, dropped, stopVars,
                    backlog, hadBacklog, lateEmit, event, escVars, openFailed >>

\* ---------------------------------------------------------- specification
LoggerInit ==
    /\ cfg \in LogConfig
    /\ queue = <<>>
    /\ exitFlag = FALSE
    /\ pcP = [p \in Producers |-> "idle"]
    /\ pend = [p \in Producers |-> NoTask]
    /\ emitted = [p \in Producers |-> 0]
    /\ pcW = "pop"
    /\ task = NoTask
    /\ hasTask = FALSE
    /\ fileOpen = FALSE
    /\ currentFileName = 0
    /\ currentSize = 0
    /\ bytesSinceFlush = 0
    /\ lastFlush = 0
    /\ disk = [n \in FileNames |-> NoFile]
    /\ clock = 0
    /\ failsLeft \in (IF cfg \in FailConfigs THEN {0, MaxOpenFail} ELSE {0})
    /\ console = NoTask
    /\ warnings = 0
    /\ dropped = 0
    /\ joinable = TRUE
    /\ pcS = "idle"
    /\ stopCalls = 0
    /\ backlog = 0
    /\ hadBacklog = FALSE
    /\ lateEmit = FALSE
    /\ event = NoEvent
    /\ openFailed = FALSE

\* No LogLine text is being rendered.
EscIdle == escMsg = <<>> /\ escOut = <<>> /\ escDone = FALSE

Init == LoggerInit /\ EscIdle

Next ==
    \/ \E p \in Producers : Emit(p)
    \/ \E p \in Producers : PushWake(p)
    \/ WorkerPop
    \/ WorkerWrite
    \/ WorkerCreate
    \/ WorkerRotate
    \/ WorkerRecreate
    \/ WorkerFlush
    \/ WorkerFinal
    \/ StopRequest
    \/ StopJoin
    \/ Tick

Spec == Init /\ [][Next]_vars

\* ---------------------------------------------- rendering one message text
\* A LogLine holding any of the sampled texts, on an idle logger.
EscInit ==
    /\ LoggerInit
    /\ cfg \in FailConfigs
    /\ failsLeft = 0
    /\ escMsg \in Texts
    /\ escOut = <<>>
    /\ escDone = FALSE

\* ~LogLine renders the msg field of its text.
EscRender ==
    /\ ~escDone
    /\ escOut' = RenderMsg(escMsg)
    /\ escDone' = TRUE
    /\ UNCHANGED << escMsg, loggerVars >>

EscNext == EscRender

EscSpec == EscInit /\ [][EscNext]_vars

\* Threads that are runnable keep being scheduled: the worker's steps, a push
\* whose wait condition holds, and the join of stop.  Producers and the clock
\* are under no obligation.
FairSpec ==
    /\ Spec
    /\ WF_vars(WorkerPop)
    /\ WF_vars(WorkerWrite)
    /\ WF_vars(WorkerCreate)
    /\ WF_vars(WorkerRotate)
    /\ WF_vars(WorkerRecreate)
    /\ WF_vars(WorkerFlush)
    /\ WF_vars(WorkerFinal)
    /\ WF_vars(StopJoin)
    /\ \A p \in Producers : WF_vars(PushWake(p))

\* ------------------------------------------- files that stay open a while
\* The configurations in which a file takes more than one line before it
\* rotates, so that a session can hold unflushed bytes between iterations.
\* They all have the drop policy, under which no push ever waits.
IdleInit == Init /\ cfg.maxFileSize > 1

IdleNext ==
    \/ \E p \in Producers : Emit(p)
    \/ WorkerPop
    \/ WorkerWrite
    \/ WorkerCreate
    \/ WorkerRotate
    \/ WorkerRecreate
    \/ WorkerFlush
    \/ WorkerFinal
    \/ StopRequest
    \/ StopJoin
    \/ Tick

\* The worker's steps and the join of stop keep being scheduled.
IdleSpec ==
    /\ IdleInit
    /\ [][IdleNext]_vars
    /\ WF_vars(WorkerPop)
    /\ WF_vars(WorkerWrite)
    /\ WF_vars(WorkerCreate)
    /\ WF_vars(WorkerRotate)
    /\ WF_vars(WorkerRecreate)
    /\ WF_vars(WorkerFlush)
    /\ WF_vars(WorkerFinal)
    /\ WF_vars(StopJoin)

\* ------------------------------------------------------------------ claims
\* The overflow policies push compares queuePolicy with.
Recognised == {"block", "drop", "warn"}

\* The worker runs createNewLogFile in this step, and its LOG_INFO line passes
\* the filter, so push is called on the worker thread.
WorkerPushes ==
    pcW \in {"create", "recreate"} /\ pcW' # pcW /\ Admits(LOG_LEVEL_INFO)

\* C1: per-producer FIFO into the files.  For two lines of one producer that
\* are both in the log directory, the one emitted first is in a file with an
\* earlier timestamp, or earlier in the same file.
C1_ProducerFifoInFiles ==
    \A n1, n2 \in Existing(disk) :
      \A i \in 1..Len(disk[n1].content), j \in 1..Len(disk[n2].content) :
        LET a == disk[n1].content[i]
            b == disk[n2].content[j]
        IN (a.src \in Producers /\ a.src = b.src /\ a.seq < b.seq)
             => (n1 < n2 \/ (n1 = n2 /\ i < j))

\* Both lines of producer 1 are on disk in different files, and a line of
\* producer 2 is on disk as well.
C1_Witness ==
    \E n1, n2 \in Existing(disk) :
      /\ n1 < n2
      /\ \E i \in 1..Len(disk[n1].content) :
           disk[n1].content[i].src = 1 /\ disk[n1].content[i].seq = 1
      /\ \E j \in 1..Len(disk[n2].content) :
           disk[n2].content[j].src = 1 /\ disk[n2].content[j].seq = 2
      /\ \E n \in Existing(disk) : \E k \in 1..Len(disk[n].content) :
           disk[n].content[k].src = 2

\* C2: under the block policy no task is lost.  None is discarded, the worker
\* never ends up waiting in its own push (nothing would be dequeued again), and
\* when the worker has ended, no task handed to push while it was still in its
\* loop is left in the queue or in a waiting push.
C2_BlockLosesNothing ==
    cfg.queuePolicy = "block" =>
      /\ dropped = 0
      /\ pcW # "blocked"
      /\ (pcW = "done" /\ ~lateEmit)
           => (queue = <<>> /\ \A p \in Producers : pcP[p] = "idle")

\* C3 as stated: the queue never holds more than maxQueueSize tasks.
C3_DepthBounded == Len(queue) <= cfg.maxQueueSize

\* C3, amended: under the block, drop and warn policies the queue never holds
\* more than maxQueueSize tasks (a waiting push enqueues only once there is room).
C3_DepthBoundedRecognised ==
    cfg.queuePolicy \in Recognised => Len(queue) <= cfg.maxQueueSize

\* A push waits under the block policy on a full queue.
C3_Witness ==
    /\ cfg.queuePolicy = "block"
    /\ Len(queue) = cfg.maxQueueSize
    /\ \E p \in Producers : pcP[p] = "wait"

\* C4: under the drop policy a push on a full queue never waits, leaves the
\* queue as it is, writes no warning and discards its task.
C4_DropAtCapacity ==
    [][ (cfg.queuePolicy = "drop" /\ Len(queue) >= cfg.maxQueueSize) =>
          /\ queue' \in {queue, Tail(queue)}
          /\ warnings' = warnings
          /\ \A p \in Producers : pcP'[p] = "idle"
          /\ pcW' # "blocked"
          /\ \A p \in Producers, m \in Messages :
               (EmitMsg(p, m) /\ Admits(m.lvl))
                 => (queue' = queue /\ dropped' = dropped + 1)
          /\ WorkerPushes => (queue' = queue /\ dropped' = dropped + 1) ]_vars

\* A push has dropped a task on a full queue under the drop policy.
C4_Witness ==
    /\ cfg.queuePolicy = "drop"
    /\ dropped >= 1
    /\ Len(queue) = cfg.maxQueueSize

\* C5: under the warn policy the warning lines equal the dropped tasks: a push
\* on a full queue drops its task, leaves the queue and writes one warning; a
\* push that enqueues writes none.
C5_WarnPerDrop ==
    /\ [](cfg.queuePolicy = "warn" => warnings = dropped)
    /\ [][ cfg.queuePolicy = "warn" =>
             /\ warnings' - warnings = dropped' - dropped
             /\ Len(queue') > Len(queue) => warnings' = warnings
             /\ \A p \in Producers, m \in Messages :
                  (EmitMsg(p, m) /\ Admits(m.lvl) /\ Len(queue) >= cfg.maxQueueSize)
                    => (queue' = queue /\ warnings' = warnings + 1)
             /\ (WorkerPushes /\ Len(queue) >= cfg.maxQueueSize)
                  => (queue' = queue /\ warnings' = warnings + 1) ]_vars

\* Two pushes have dropped their task under the warn policy.
C5_Witness == cfg.queuePolicy = "warn" /\ warnings = 2

\* Every file's appended bytes are on disk.
AllSynced == \A n \in Existing(disk) : disk[n].synced = FileSize(disk[n])

\* C6: stop returns only after the tasks queued at the stop request were popped
\* and processed, the worker made its final flush and ended, and the file is
\* closed; the worker leaves its loop only on an empty queue.
C6_StopAfterDrain ==
    /\ [](stopCalls >= 1 =>
            (pcW = "done" /\ backlog = 0 /\ ~joinable /\ ~fileOpen /\ AllSynced))
    /\ [](pcW = "done" => AllSynced)
    /\ [][(pcW = "pop" /\ pcW' = "final") => (queue = <<>> /\ queue' = <<>>)]_vars

\* stop has returned after a stop request made on a non-empty queue, with file
\* routing on and a task written.
C6_Witness ==
    /\ stopCalls >= 1
    /\ hadBacklog
    /\ cfg.toFile
    /\ \E n \in Existing(disk) : disk[n].content # <<>>

\* No producer will emit again.
Quiet == \A p \in Producers : pcP[p] = "idle" /\ emitted[p] = EmitQuota(p)

\* The worker cannot write because the modelled disk is full.
DiskCapReached == pcW \in {"write", "create"} /\ DiskFull(disk)

\* C7: once stop is requested and the producers emit no more, the worker
\* empties the queue, flushes and ends, and stop returns (as long as the
\* modelled disk has room).
C7_ShutdownTerminates ==
    (exitFlag /\ Quiet)
      ~> ((pcW = "done" /\ stopCalls >= 1) \/ DiskCapReached \/ pcW = "terminated")

\* C8: a call of stop after a completed stop changes nothing and does not wait:
\* exitFlag stays set, the worker is not joined again, no file is open, and the
\* queue, the worker and the files are left alone.
C8_StopIdempotent ==
    /\ [](stopCalls >= 1 => (exitFlag /\ ~joinable /\ ~fileOpen))
    /\ []((stopCalls >= 1 /\ pcS = "join") => ENABLED StopJoin)
    /\ [][(stopCalls >= 1 /\ pcS' # pcS) =>
            UNCHANGED << exitFlag, joinable, fileOpen, disk, queue, pcW,
                         currentFileName, currentSize, bytesSinceFlush >>]_vars

\* stop has returned twice.
C8_Witness == stopCalls = 2

\* C9: a file is never appended to once it has reached maxFileSize, so its size
\* is at most maxFileSize plus the length of its last line.
C9_FileSizeBound ==
    \A n \in Existing(disk) :
      LET c == disk[n].content
      IN c # <<>> =>
           /\ FileSize(disk[n]) - c[Len(c)].len < cfg.maxFileSize
           /\ FileSize(disk[n]) <= cfg.maxFileSize + c[Len(c)].len

\* cleanupOldLogFiles has just returned (createNewLogFile is next).
CleanupDone == pcW \in {"create", "recreate"}

CleanupRuns ==
    \/ pcW = "write" /\ ~fileOpen /\ pcW' = "create"
    \/ pcW = "rotate" /\ pcW' = "recreate"

\* The directory cleanupOldLogFiles finds in this step.
CleanupInput == IF pcW = "rotate" THEN RotateClose.disk ELSE disk

\* The files of d have pairwise different modification times.
DistinctTimes(d) == \A a, b \in Existing(d) : a # b => d[a].mtime # d[b].mtime

\* Cleanup of directory d, leaving d2, deleted exactly the shortest oldest-first
\* prefix that brings the total to at most maxLogsTotalSize.
ShortestOldestPrefix(d, d2) ==
    LET deleted == Existing(d) \ Existing(d2)
    IN /\ Existing(d2) \subseteq Existing(d)
       /\ \A n \in Existing(d2) : d2[n] = d[n]
       /\ \A n \in deleted, m \in Existing(d) :
            d[m].mtime < d[n].mtime => m \in deleted
       /\ TotalSize(d2) <= cfg.maxLogsTotalSize
       /\ \A n \in deleted :
            SumOver(d, {m \in Existing(d) : d[m].mtime >= d[n].mtime})
              > cfg.maxLogsTotalSize

WriteIterationEnds == pcW \in {"rotate", "recreate"} /\ pcW' = "pop"

\* File f holds task t.
Holds(f, t) == f.exists /\ \E i \in 1..Len(f.content) : f.content[i] = t

Unflushed == FileSize(disk[currentFileName]) - disk[currentFileName].synced

\* This step evaluates the flush policy on the current counters: an iteration
\* without a write, or the end of one that wrote a task below ERROR without
\* rotating.
PolicyOnly ==
    \/ pcW = "flush" /\ pcW' = "pop"
    \/ /\ pcW = "rotate" /\ pcW' = "pop"
       /\ task.lvl > LOG_LEVEL_ERROR

\* C13: at the end of every worker iteration with a file open, fewer than
\* FLUSH_BYTES_THRESHOLD bytes are unflushed and less than FLUSH_INTERVAL_MS
\* has passed since the last flush; the policy flushes exactly when one of the
\* two limits is reached, and a flush resets bytesSinceFlush and lastFlush.
C13_FlushPolicy ==
    /\ []((pcW = "pop" /\ cfg.toFile /\ fileOpen) =>
            (bytesSinceFlush < FLUSH_BYTES_THRESHOLD
               /\ Unflushed < FLUSH_BYTES_THRESHOLD))
    /\ [][ (pcW \in {"flush", "rotate", "recreate"} /\ pcW' = "pop"
              /\ cfg.toFile /\ fileOpen')
             => clock - lastFlush' < FLUSH_INTERVAL_MS ]_vars
    /\ [][ (PolicyOnly /\ cfg.toFile /\ fileOpen) =>
             IF \/ bytesSinceFlush >= FLUSH_BYTES_THRESHOLD
                \/ clock - lastFlush >= FLUSH_INTERVAL_MS
             THEN /\ bytesSinceFlush' = 0
                  /\ lastFlush' = clock
                  /\ disk'[currentFileName].synced
                       = FileSize(disk'[currentFileName])
             ELSE UNCHANGED << bytesSinceFlush, lastFlush, disk >> ]_vars

\* An iteration wrote a task below ERROR that brought bytesSinceFlush to the
\* threshold inside the second of the last flush, and the policy flushed.
C13_Witness ==
    /\ pcW = "pop"
    /\ hasTask
    /\ task.lvl > LOG_LEVEL_ERROR
    /\ fileOpen
    /\ currentSize < cfg.maxFileSize
    /\ Holds(disk[currentFileName], task)
    /\ clock = 0
    /\ bytesSinceFlush = 0
    /\ Unflushed = 0

\* A level at or above the configured threshold of an enabled logger; ERROR,
\* the lowest number, is the most severe.
Passes(lvl) == cfg.enable /\ lvl <= cfg.level

\* The task producer p builds for its next line m.
NextTask(p, m) == [lvl |-> m.lvl, len |-> m.len, src |-> p, seq |-> emitted[p] + 1]

\* C14: emitting a line is a no-op when the logger is disabled or the line is
\* below the threshold (the queue is unchanged, and such a line is never on the
\* console, in a file or anywhere in between); a line at or above the threshold
\* is handed to push, which enqueues it, drops it on a full queue, or waits.
C14_EmitFilter ==
    /\ [][ \A p \in Producers, m \in Messages :
             (EmitMsg(p, m) /\ ~Passes(m.lvl)) =>
               UNCHANGED << queue, pcP, pend, console, disk, warnings, dropped >> ]_vars
    /\ [][ \A p \in Producers, m \in Messages :
             (EmitMsg(p, m) /\ Passes(m.lvl)) =>
               \/ queue' = Append(queue, NextTask(p, m))
               \/ /\ queue' = queue
                  /\ Len(queue) >= cfg.maxQueueSize
                  /\ \/ dropped' = dropped + 1
                     \/ pcP'[p] = "wait" /\ pend'[p] = NextTask(p, m) ]_vars
    /\ [](/\ \A i \in 1..Len(queue) : Passes(queue[i].lvl)
          /\ \A p \in Producers : pcP[p] = "wait" => Passes(pend[p].lvl)
          /\ hasTask => Passes(task.lvl)
          /\ console # NoTask => Passes(console.lvl)
          /\ \A n \in Existing(disk) :
               \A i \in 1..Len(disk[n].content) : Passes(disk[n].content[i].lvl))

\* Producer 1 has emitted two lines of which one was filtered and the other is
\* in the queue; nothing was popped or dropped.
C14_Witness ==
    /\ cfg.enable
    /\ emitted[1] = 2
    /\ emitted[2] = 0
    /\ Len(queue) = 1
    /\ console = NoTask
    /\ dropped = 0
    /\ pcP[1] = "idle"

\* C15: a failure to create the log directory, to enumerate or delete files in
\* cleanup, or to open a log file never ends the worker thread or the process:
\* the worker stays in its loop (until stop lets it leave).
C15_FailuresContained == pcW # "terminated"

\* The value of one hexadecimal digit.
HexVal(d) == IF d <= 57 THEN d - 48 ELSE d - 87

\* The byte a two-character JSON escape \k stands for.
SimpleEscape(k) ==
    IF k = 98 THEN 8
    ELSE IF k = 102 THEN 12
    ELSE IF k = 110 THEN 10
    ELSE IF k = 114 THEN 13
    ELSE IF k = 116 THEN 9
    ELSE k

\* JSON string unescaping (RFC 8259, section 7) of the bytes between the quotes.
RECURSIVE jsonUnescape(_)
jsonUnescape(e) ==
    IF e = <<>> THEN <<>>
    ELSE IF e[1] = 92 /\ Len(e) >= 6 /\ e[2] = 117
    THEN << 4096 * HexVal(e[3]) + 256 * HexVal(e[4])
              + 16 * HexVal(e[5]) + HexVal(e[6]) >>
           \o jsonUnescape(SubSeq(e, 7, Len(e)))
    ELSE IF e[1] = 92 /\ Len(e) >= 2
    THEN << SimpleEscape(e[2]) >> \o jsonUnescape(SubSeq(e, 3, Len(e)))
    ELSE << e[1] >> \o jsonUnescape(Tail(e))

\* The bytes a hexadecimal digit can be.
HexDigits == (48..57) \cup (97..102) \cup (65..70)

\* e is the inside of a JSON string: no bare quote, no bare backslash, no byte
\* below 0x20, and every backslash starts a JSON escape.
RECURSIVE ValidEscaped(_)
ValidEscaped(e) ==
    IF e = <<>> THEN TRUE
    ELSE IF e[1] = 92
    THEN /\ Len(e) >= 2
         /\ IF e[2] = 117
            THEN /\ Len(e) >= 6
                 /\ \A i \in 3..6 : e[i] \in HexDigits
                 /\ ValidEscaped(SubSeq(e, 7, Len(e)))
            ELSE /\ e[2] \in {34, 92, 47, 98, 102, 110, 114, 116}
                 /\ ValidEscaped(SubSeq(e, 3, Len(e)))
    ELSE /\ e[1] >= 32
         /\ e[1] # 34
         /\ ValidEscaped(Tail(e))

\* C16 as stated: unescaping the rendered msg field gives back the message
\* text, and the field holds no bare quote, backslash or byte below 0x20.
C16_EscapeRoundTrip ==
    escDone => (jsonUnescape(escOut) = escMsg /\ ValidEscaped(escOut))

\* C16, amended: unescaping the rendered msg field gives back the message text
\* without its trailing \n and \r bytes, and the field holds no bare quote,
\* backslash or byte below 0x20.
C16_EscapeRoundTripStripped ==
    escDone => (jsonUnescape(escOut) = StripTrailing(escMsg) /\ ValidEscaped(escOut))

\* The text of a backslash, the control byte 0x01 and a trailing carriage
\* return has been rendered: two backslashes, then \u0001, and no more.
C16_Witness ==
    /\ escDone
    /\ escMsg = << 92, 1, 13 >>
    /\ escOut = << 92, 92, 92, 117, 48, 48, 48, 49 >>

\* C17: the worker suspends only in its wait for a task; it is never waiting
\* in push for room in the queue (which nobody else would make).
C17_WorkerWaitsOnlyInPop == ~(pcW = "blocked")

\* The open file holds unflushed bytes and FLUSH_INTERVAL_MS has passed since
\* the last flush.
FlushDue ==
    /\ cfg.toFile
    /\ fileOpen
    /\ Unflushed > 0
    /\ clock - lastFlush >= FLUSH_INTERVAL_MS

\* C18: the time limit of the flush policy works on an idle logger.  An
\* iteration that finds no task still evaluates the policy and flushes when
\* FLUSH_INTERVAL_MS has passed; so unflushed bytes of the open file whose
\* interval has passed get flushed (or the file closed) with no further push
\* and no stop request needed, as long as the modelled disk has room.
C18_IdleTimeFlush ==
    /\ [][ (pcW = "pop" /\ queue = <<>> /\ ~exitFlag) =>
             (pcW' = pcW \/ (pcW' = "flush" /\ ~hasTask')) ]_vars
    /\ [][ (pcW = "flush" /\ pcW' = "pop" /\ ~hasTask /\ FlushDue) =>
             (Unflushed' = 0 /\ bytesSinceFlush' = 0 /\ lastFlush' = clock) ]_vars
    /\ (FlushDue ~> (~fileOpen \/ Unflushed = 0 \/ DiskCapReached))

\* An iteration without a task has flushed bytes that an earlier iteration
\* left unflushed; no stop was requested.
C18_Witness ==
    /\ event = IdleFlushEvent
    /\ ~exitFlag
    /\ fileOpen
    /\ Unflushed = 0
    /\ lastFlush = clock

\* This step runs createNewLogFile up to its file.open (or into the wait of its
\* own push).
CreateRuns == pcW \in {"create", "recreate"} /\ pcW' # pcW

\* C19: createNewLogFile, for the first file and for every replacement, comes
\* straight after a completed cleanupOldLogFiles of the same worker iteration;
\* cleanup never runs with a file open, and nothing is appended to any file
\* between the cleanup and the creation.
C19_CleanupBeforeCreate ==
    /\ [](CleanupDone => (event.kind = "cleanup" /\ ~fileOpen))
    /\ [][ CleanupRuns => (~fileOpen' /\ (fileOpen => pcW = "rotate")) ]_vars
    /\ [][ (CleanupDone /\ ~CreateRuns) => UNCHANGED << disk, fileOpen >> ]_vars
    /\ [][ (\/ fileOpen' /\ ~fileOpen
            \/ Existing(disk') \ Existing(disk) # {}
            \/ currentFileName' # currentFileName)
             => (CreateRuns /\ event.kind = "cleanup") ]_vars

\* A replacement file has been created in a later second than the file before
\* it, after the cleanup of the rotation.
C19_Witness ==
    /\ pcW = "pop"
    /\ fileOpen
    /\ currentFileName = 1
    /\ disk[0].exists
    /\ disk[0].content # <<>>
    /\ Holds(disk[0], task)

\* Sequence a is the beginning of sequence b.
IsPrefix(a, b) == Len(a) <= Len(b) /\ SubSeq(b, 1, Len(a)) = a

\* C20: a file created in the second of an existing file of the same name
\* opens that file for append: no step truncates or overwrites what a file
\* holds (a file only grows at its end, or is removed), the new session is on
\* the existing path, and the lines written afterwards follow the old ones.
C20_SameSecondAppend ==
    /\ [][ \A n \in FileNames :
             (disk[n].exists /\ disk'[n].exists) =>
               (IsPrefix(disk[n].content, disk'[n].content)
                  /\ disk'[n].synced >= disk[n].synced) ]_vars
    /\ [][ (CreateRuns /\ fileOpen' /\ disk[clock].exists) =>
             /\ currentFileName' = clock
             /\ disk'[clock].exists
             /\ IsPrefix(disk[clock].content, disk'[clock].content) ]_vars
    /\ [][ (pcW = "write" /\ fileOpen /\ pcW' = "rotate") =>
             disk'[currentFileName].content
               = Append(disk[currentFileName].content, task) ]_vars

\* The open file was already at maxFileSize before its last line: it was
\* closed by a rotation, opened again in the same second, and appended to.
C20_Witness ==
    /\ fileOpen
    /\ LET c == disk[currentFileName].content
       IN /\ Len(c) >= 2
          /\ FileSize(disk[currentFileName]) - c[Len(c)].len >= cfg.maxFileSize

\* This step is a createNewLogFile whose file.open fails.
OpenFails == CreateRuns /\ pcW' # "blocked" /\ ~fileOpen'

\* The lines file f holds (none when it does not exist).
Content(f) == IF f.exists THEN f.content ELSE <<>>

\* C21: when file.open fails while a task is processed, the task is left out
\* of the files only (it has been written to the console when toConsole is
\* set) and no file is open afterwards; the next task that finds no file open
\* runs openFileOnce again, and once an open succeeds the task in hand is
\* appended to the file.  (That a skipped task is in no file is stated for the
\* producers' lines; the worker's own lines all read alike.)
C21_OpenFailureRecovery ==
    /\ [][ OpenFails =>
             /\ \A n \in FileNames : Content(disk'[n]) = Content(disk[n])
             /\ currentSize' = 0
             /\ pcW' \in {"flush", "pop"}
             /\ cfg.toConsole => console' = task ]_vars
    /\ [][ (OpenFails /\ pcW = "create" /\ task.src \in Producers) =>
             \A n \in FileNames : ~Holds(disk'[n], task) ]_vars
    /\ [][ (pcW = "write" /\ ~fileOpen /\ pcW' # pcW) =>
             pcW' \in {"create", "terminated"} ]_vars
    /\ [][ (pcW = "create" /\ fileOpen') =>
             /\ pcW' = "rotate"
             /\ disk'[currentFileName'].exists
             /\ disk'[currentFileName'].content
                  = Append(Content(disk[currentFileName']), task) ]_vars

\* After a failed file.open a later attempt has opened a file, and the task
\* in hand is in it.
C21_Witness ==
    /\ openFailed
    /\ fileOpen
    /\ hasTask
    /\ Holds(disk[currentFileName], task)

\* This step appends the task in hand to the open file.
WriteRuns ==
    \/ pcW = "write" /\ fileOpen /\ pcW' = "rotate"
    \/ pcW = "create" /\ fileOpen'

\* C22: while a file is open, currentSize is the logical size of the file:
\* what the path held when it was opened plus every task written since.  An
\* open sets the counter to the size the path has on disk, a write adds the
\* length of the task, and no other step changes the counter of an open file.
C22_CurrentSizeIsFileSize ==
    /\ [](fileOpen => currentSize = FileSize(disk[currentFileName]))
    /\ [][ (pcW = "recreate" /\ fileOpen') =>
             /\ currentSize' = DiskSize(disk[currentFileName'])
             /\ currentSize' = FileSize(disk[currentFileName']) ]_vars
    /\ [][ (pcW = "create" /\ fileOpen') =>
             /\ currentSize' = DiskSize(disk[currentFileName']) + task.len
             /\ DiskSize(disk[currentFileName'])
                  = FileSize(disk[currentFileName']) ]_vars
    /\ [][ (pcW = "write" /\ fileOpen /\ pcW' = "rotate") =>
             currentSize' = currentSize + task.len ]_vars
    /\ [][ (fileOpen /\ fileOpen' /\ currentSize' # currentSize) =>
             WriteRuns ]_vars
    /\ [][ (fileOpen' /\ ~WriteRuns /\ ~CreateRuns) =>
             UNCHANGED << currentSize, currentFileName >> ]_vars

\* A file that held one unit was opened again and a task of two units was
\* written to it: the counter stands at three.
C22_Witness ==
    /\ fileOpen
    /\ pcW = "rotate"
    /\ Len(disk[currentFileName].content) = 2
    /\ disk[currentFileName].content[1].len = 1
    /\ task.len = 2
    /\ currentSize = 3

\* The longest line a task carries: the worker's own line about a new file.
MaxTaskLen == SelfTask.len

\* The bytes of all log files together, written or still buffered.
AggregateSize == SumLogical(disk, Existing(disk))

C24_UnknownPolicyUnbounded ==
    /\ [][ \A p \in Producers, m \in Messages :
             (EmitMsg(p, m) /\ Passes(m.lvl) /\ cfg.queuePolicy \notin Recognised) =>
               /\ queue' = Append(queue, NextTask(p, m))
               /\ UNCHANGED << pcP, pend, dropped, warnings >> ]_vars
    /\ [][ (WorkerPushes /\ cfg.queuePolicy \notin Recognised) =>
             /\ queue' = Append(queue, SelfTask)
             /\ pcW' # "blocked"
             /\ UNCHANGED << dropped, warnings >> ]_vars
    /\ [](cfg.queuePolicy \notin Recognised =>
            /\ dropped = 0
            /\ warnings = 0
            /\ pcW # "blocked"
            /\ \A p \in Producers : pcP[p] = "idle")
    /\ [](cfg.queuePolicy \in Recognised => Len(queue) <= cfg.maxQueueSize)

\* Under an unknown policy the queue holds one task more than maxQueueSize;
\* nothing was dropped and nobody waits.
C24_Witness ==
    /\ cfg.queuePolicy \notin Recognised
    /\ Len(queue) = cfg.maxQueueSize + 1
    /\ dropped = 0
    /\ \A p \in Producers : pcP[p] = "idle"

====
